---- MODULE Spec2Model ----
(***************************************************************************)
(* Label-state consolidation engine of the HIL classification pipeline:    *)
(* the master snapshot store (outputs/manual_labeling/master), the two     *)
(* fold-in operations update_master_labels and                             *)
(* integrate_changes_with_master, and the spreadsheet round trip           *)
(* convert_json_to_excel_rtl / detect_changes_from_excel.                  *)
(***************************************************************************)
EXTENDS Integers, Sequences, FiniteSets, TLC

(***************************************************************************)
(* Bounds of the model.                                                    *)
(***************************************************************************)
\* the clock is read in the seconds 0..MaxSec of one minute
MaxSec == 1
\* and at most MaxUs + 1 times within one second
MaxUs == 2
\* longest batch file / change list handed to a fold-in
MaxBatchLen == 2
\* number of fold-ins started in one run
MaxOps == 2
\* number of injected snapshot write failures in one run
MaxFail == 1

(***************************************************************************)
(* Records.  ALL_LABELS is configured from the environment; the model uses *)
(* two label names.  A record is {id, text_content, label_1..label_n}.     *)
(***************************************************************************)
ALL_LABELS == {"l1", "l2"}

Vec(a, b) == [l1 |-> a, l2 |-> b]

Rec(i, t, v) == [id |-> i, text |-> t, labels |-> v]

\* the text every id is the hash of
TextOf(i) == CASE i = "r1" -> "ta" [] i = "r2" -> "tbb" [] OTHER -> "tcc"

\* len(text_content)
TextLen(t) == CASE t = "ta" -> 2 [] t = "tbb" -> 3 [] t = "tcc" -> 3 [] OTHER -> 4

\* the records batches are made of
Records ==
  { Rec("r1", TextOf("r1"), Vec(1, 0)),
    Rec("r2", TextOf("r2"), Vec(0, 1)), Rec("r2", TextOf("r2"), Vec(1, 1)),
    Rec("r3", TextOf("r3"), Vec(0, 0)) }

SeqsUpTo(S, n) == UNION { [1..k -> S] : k \in 0..n }

\* the contents a batch file or a change list can have
Batches == SeqsUpTo(Records, MaxBatchLen)

\* the batch files and change lists folded into the master store: two ids,
\* one of them with two label vectors
StoreRecords == { r \in Records : r.id \in {"r1", "r2"} }

StoreBatches == SeqsUpTo(StoreRecords, MaxBatchLen)

\* records a hand-corrected batch file can hold besides: one that lacks a
\* label key, one with a label value other than 0 and 1
BadRecords ==
  { Rec("r1", TextOf("r1"), [l1 |-> 1]), Rec("r2", TextOf("r2"), Vec(2, 0)) }

\* the batch files update_master_labels is run on: json.load takes any list
UmlBatches == SeqsUpTo(StoreRecords \cup BadRecords, MaxBatchLen)

\* the change lists process_excel_changes hands to the integration: it
\* returns before the call when detection found no change
ChangeLists == { c \in StoreBatches : c # <<>> }

Ids(s) == { s[k].id : k \in DOMAIN s }

NoDupIds(s) == \A j, k \in DOMAIN s : s[j].id = s[k].id => j = k

\* record.get(category, 0)
Get(r, l) == IF l \in DOMAIN r.labels THEN r.labels[l] ELSE 0

\* {item['id']: item for item in data}[i]: the last item of that id
Lookup(s, i) ==
  LET ks == { k \in DOMAIN s : s[k].id = i }
  IN  s[CHOOSE k \in ks : \A j \in ks : j <= k]

(***************************************************************************)
(* Snapshot file names.                                                    *)
(* TOTAL_MANUAL_LABEL_AT-<timestamp>_TOTAL_SAMPLE_SIZE_<n>.json, as the    *)
(* sequence of character codes Python compares.  The directory, the prefix *)
(* and the %Y%m%d_%H%M part of the timestamp are the same in every name of *)
(* the model (the clock stays within one minute) and are left out.         *)
(***************************************************************************)
NoUs == -1

Name(sec, us, size) == [sec |-> sec, us |-> us, size |-> size]

Digit(d) == 48 + d

\* str(n) for a record count
RECURSIVE Dec(_)
Dec(n) == IF n < 10 THEN <<Digit(n)>> ELSE Dec(n \div 10) \o <<Digit(n % 10)>>

\* strftime('%S')
FmtSec(sec) == <<Digit(sec \div 10), Digit(sec % 10)>>

\* strftime('_%f')
FmtUs(us) ==
  <<95, Digit(0), Digit(0), Digit(0), Digit(0), Digit(us \div 10), Digit(us % 10)>>

\* "_TOTAL_SAMPLE_SIZE_"
SizeTag == <<95, 84, 79, 84, 65, 76, 95, 83, 65, 77, 80, 76, 69, 95, 83, 73, 90, 69, 95>>

\* ".json"
JsonExt == <<46, 106, 115, 111, 110>>

NameStr(n) ==
  FmtSec(n.sec) \o (IF n.us = NoUs THEN <<>> ELSE FmtUs(n.us))
    \o SizeTag \o Dec(n.size) \o JsonExt

\* Python's str < str
LexLess(a, b) ==
  \E k \in 1..(Len(b)) :
     /\ \A j \in 1..(k - 1) : j <= Len(a) /\ a[j] = b[j]
     /\ \/ k > Len(a)
        \/ k <= Len(a) /\ a[k] < b[k]

\* sorted(files)[-1]
Latest(names) ==
  CHOOSE n \in names : \A m \in names \ {n} : LexLess(NameStr(m), NameStr(n))

(***************************************************************************)
(* The merge of update_master_labels.                                      *)
(***************************************************************************)
\* list({item['id']: item for item in s}.values()): one item per id, at the
\* position of the id's first occurrence, holding the id's last item
RECURSIVE DedupFrom(_, _, _)
DedupFrom(s, k, seen) ==
  IF k > Len(s) THEN <<>>
  ELSE IF s[k].id \in seen THEN DedupFrom(s, k + 1, seen)
  ELSE <<Lookup(s, s[k].id)>> \o DedupFrom(s, k + 1, seen \cup {s[k].id})

\* the merge with the first item of an id kept instead of the last
Dedup_FirstWins(s) ==
  LET d == DedupFrom(s, 1, {})
  IN  [k \in DOMAIN d |->
         s[CHOOSE j \in DOMAIN s :
             s[j].id = d[k].id /\ \A i \in 1..(j - 1) : s[i].id # d[k].id]]

Dedup(s) == DedupFrom(s, 1, {})

\* the batch written over the master instead of merged into it
MergeUpdate_Overwrite(hasMaster, master, new) == new

\* lines 70-81: hasMaster is `if existing_master_files`
MergeUpdate(hasMaster, master, new) ==
  IF hasMaster THEN Dedup(master \o new) ELSE new

\* lines 142-161 of change_detection.py: master_lookup is built once, before
\* the loop; a change whose id it holds replaces the first item of that id,
\* any other change is appended
ReplaceFirst(md, c) ==
  LET ks == { k \in DOMAIN md : md[k].id = c.id }
      i  == CHOOSE k \in ks : \A j \in ks : k <= j
  IN  [md EXCEPT ![i] = c]

RECURSIVE ApplyChanges(_, _, _, _)
ApplyChanges(md, changes, k, keys) ==
  IF k > Len(changes) THEN md
  ELSE IF changes[k].id \in keys
       THEN ApplyChanges(ReplaceFirst(md, changes[k]), changes, k + 1, keys)
       ELSE ApplyChanges(Append(md, changes[k]), changes, k + 1, keys)

\* lines 134-161 and 188-199: the record list integrate_changes_with_master writes
MergeIntegrate(hasMaster, master, changes) ==
  IF hasMaster THEN ApplyChanges(master, changes, 1, Ids(master)) ELSE changes

(***************************************************************************)
(* The master store and the fold-in in progress.                           *)
(***************************************************************************)
VARIABLES
  fold,         \* the folds of one snapshot with two batches, in both orders
  xl            \* one spreadsheet round trip: export, edits, detected changes

VARIABLES
  sel,          \* one batch selection: the data frame, the labeled ids, the batch
  batches,      \* the batch directory: batch file name -> file
  batchLog      \* the batch files recorded so far, oldest first, and the cleanups

VARIABLES
  cl            \* one labeling or bulk classification run: ids, calls, predictions

batchVars == <<sel, batches, batchLog>>

pureVars == <<fold, xl, batchVars, cl>>

VARIABLES
  master,       \* the master directory: snapshot file name -> file
  order,        \* the names of master, oldest written first
  clock,        \* the last reading of pd.Timestamp.now()
  ftData,       \* the records ft_data.jsonl was generated from
  pc,           \* position of the running fold-in, "idle" between fold-ins
  op,           \* locals of the running (or of the last) fold-in
  everWritten,  \* a snapshot has been written completely at least once
  ops,          \* fold-ins started
  fails,        \* write failures so far
  pa            \* the 'Process ALL files' loop of main(): files, outcomes so far

storeVars == <<master, order, clock, ftData, pc, op, everWritten, ops, fails, pa>>

\* a file of the master directory: json.load succeeds on it iff valid
File(recs) == [valid |-> TRUE, recs |-> recs]

Partial == [valid |-> FALSE, recs |-> <<>>]

EmptyDir == [n \in {} |-> Partial]

NoName == Name(-1, NoUs, 0)

\* pd.Timestamp.now(): a reading is later than the reading c before it,
\* either within the same second or in a later second.  Names depend on the
\* readings only through their order, so a later reading of the same second
\* takes the next microsecond value and a later second is the next second.
Readings(c) ==
  { [sec |-> c.sec, us |-> c.us + 1] : x \in { y \in {0} : c.us < MaxUs } }
    \cup { [sec |-> c.sec + 1, us |-> 0] : x \in { y \in {0} : c.sec < MaxSec } }

\* the clock before its first reading
ClockInit == [sec |-> 0, us |-> -1]

\* open(name, 'w') followed by a complete json.dump
WriteFile(dir, n, f) == [m \in DOMAIN dir \cup {n} |-> IF m = n THEN f ELSE dir[m]]

\* os.remove(name)
RemoveFile(dir, n) == [m \in DOMAIN dir \ {n} |-> dir[m]]

\* bookkeeping of the write order
Touch(ord, n) == SelectSeq(ord, LAMBDA m : m # n) \o <<n>>

Forget(ord, n) == SelectSeq(ord, LAMBDA m : m # n)

\* kind: which fold-in; todo: the files still to remove; latest: the master
\* file that was loaded; merged: the record list to write; name: the new
\* master file; status: "run", or how the call ended
NoOp ==
  [kind |-> "none", todo |-> {}, latest |-> NoName,
   merged |-> <<>>, name |-> NoName, status |-> "none", input |-> "none"]

\* main.py lines 111-143.  mode: "all" while the 'Process ALL files' loop
\* runs; files: sorted_files; done: how the calls made so far ended
PaIdle == [mode |-> "single", files |-> <<>>, done |-> <<>>]

\* lines 132-139: the loop goes on to the next file whether the call
\* returned or raised
LoopAfter(status) ==
  IF pa.mode = "all" THEN [pa EXCEPT !.done = Append(@, status)] ELSE pa

\* a path that names no file
NoFile == [valid |-> FALSE, recs |-> <<>>, found |-> FALSE]

\* what update_master_labels is given: "ok" a file json.load parses,
\* "corrupt" one it does not, "missing" a path without a file
InputState(f) ==
  IF f = NoFile THEN "missing" ELSE IF f.valid THEN "ok" ELSE "corrupt"

\* every path taken for a parsable batch file
BatchLoads_Always(f) == TRUE

\* label_manager.py lines 63-64: open and json.load succeed
BatchLoads(f) == InputState(f) = "ok"

\* any file of either directory matched
MasterGlob_AnyDir(masterDir, batchDir) == DOMAIN masterDir \cup DOMAIN batchDir

\* glob.glob(master_pattern): the pattern is PATHS['manual_master'] joined
\* with TOTAL_MANUAL_LABEL_AT-*_TOTAL_SAMPLE_SIZE_*.json, and every file of
\* the master directory has such a name
MasterGlob(masterDir, batchDir) == DOMAIN masterDir

StoreInit ==
  /\ pa = PaIdle
  /\ master = EmptyDir
  /\ order = <<>>
  /\ clock = ClockInit
  /\ ftData = <<>>
  /\ pc = "idle"
  /\ op = NoOp
  /\ everWritten = FALSE
  /\ ops = 0
  /\ fails = 0

\* sorted(glob.glob(master_pattern))[-1], NoName when the glob is empty
LatestOf(dir) == IF DOMAIN dir = {} THEN NoName ELSE Latest(DOMAIN dir)

\* the outcomes of open(name, 'w') + json.dump: written completely, open
\* raised and nothing changed, or the dump raised on a truncated file
WriteOutcomes == {"ok", "noopen", "partial"}

(***************************************************************************)
(* update_master_labels(last_labeled_json), label_manager.py lines 60-125. *)
(***************************************************************************)
\* json.load(latest_master_file) succeeds, or there is no master file to load
LatestReadable == IF DOMAIN master = {} THEN TRUE ELSE master[LatestOf(master)].valid

\* the record list of the latest master file, [] without one
LoadedMaster == IF DOMAIN master = {} THEN <<>> ELSE master[LatestOf(master)].recs

\* lines 85-96: the new file name for n records, from the clock reading t1 of
\* line 85 and the reading t2 of line 94, which is used only when the first
\* name is taken
UmlName(n, t1, t2) ==
  LET plain == Name(t1.sec, NoUs, n)
  IN  IF plain \in DOMAIN master THEN Name(t2.sec, t2.us, n) ELSE plain

\* whether line 93 finds the first name taken
UmlTaken(n, t1) == Name(t1.sec, NoUs, n) \in DOMAIN master

\* lines 62-96: what the call has computed when it reaches save_json
UmlPlan(b, t1, t2) ==
  LET merged == MergeUpdate(DOMAIN master # {}, LoadedMaster, b)
  IN  [kind |-> "uml", todo |-> MasterGlob(master, batches),
       latest |-> LatestOf(master), merged |-> merged,
       name |-> UmlName(Len(merged), t1, t2), status |-> "run", input |-> "ok"]

\* the clock readings one call can make
UmlClocks(b) ==
  UNION { IF UmlTaken(Len(MergeUpdate(DOMAIN master # {}, LoadedMaster, b)), t1)
          THEN { <<t1, t2>> : t2 \in Readings(t1) }
          ELSE { <<t1, t1>> } : t1 \in Readings(clock) }

\* lines 63-64 raise: the batch file is missing or does not parse; nothing
\* has been read or written yet and the exception leaves the call
UML_BatchError(f) ==
  /\ pc = "idle" /\ ops < MaxOps
  /\ ~BatchLoads(f)
  /\ op' = [NoOp EXCEPT !.kind = "uml", !.status = "batcherror",
                        !.input = InputState(f)]
  /\ ops' = ops + 1
  /\ pa' = LoopAfter("batcherror")
  /\ UNCHANGED <<master, order, clock, ftData, pc, everWritten, fails>>
  /\ UNCHANGED pureVars

\* line 75 raises: the latest snapshot file does not parse
UML_LoadError(f) ==
  /\ pc = "idle" /\ ops < MaxOps
  /\ BatchLoads(f)
  /\ ~LatestReadable
  /\ op' = [NoOp EXCEPT !.kind = "uml", !.latest = LatestOf(master),
                        !.status = "error", !.input = InputState(f)]
  /\ ops' = ops + 1
  /\ pa' = LoopAfter("error")
  /\ UNCHANGED <<master, order, clock, ftData, pc, everWritten, fails>>
  /\ UNCHANGED pureVars

\* lines 62-99, save_json succeeds
UML_Write(f) ==
  /\ pc = "idle" /\ ops < MaxOps
  /\ BatchLoads(f)
  /\ LatestReadable
  /\ \E tt \in UmlClocks(f.recs) :
       LET plan == UmlPlan(f.recs, tt[1], tt[2])
       IN  /\ op' = [plan EXCEPT !.input = InputState(f)]
           /\ master' = WriteFile(master, plan.name, File(plan.merged))
           /\ order' = Touch(order, plan.name)
           /\ clock' = tt[2]
  /\ pc' = "uml_remove"
  /\ everWritten' = TRUE
  /\ ops' = ops + 1
  /\ UNCHANGED <<ftData, fails, pa>>
  /\ UNCHANGED pureVars

\* lines 62-99, save_json raises: either open() failed and the directory is
\* as before, or json.dump failed and left a truncated file of the new name
UML_WriteFail(f, outcome) ==
  /\ pc = "idle" /\ ops < MaxOps /\ fails < MaxFail
  /\ BatchLoads(f)
  /\ LatestReadable
  /\ outcome \in WriteOutcomes \ {"ok"}
  /\ \E tt \in UmlClocks(f.recs) :
       LET plan == UmlPlan(f.recs, tt[1], tt[2])
       IN  /\ op' = [plan EXCEPT !.todo = {}, !.status = "writefail",
                                 !.input = InputState(f)]
           /\ IF outcome = "partial"
              THEN /\ master' = WriteFile(master, plan.name, Partial)
                   /\ order' = Touch(order, plan.name)
              ELSE UNCHANGED <<master, order>>
           /\ clock' = tt[2]
  /\ fails' = fails + 1
  /\ ops' = ops + 1
  /\ pa' = LoopAfter("writefail")
  /\ UNCHANGED <<ftData, pc, everWritten>>
  /\ UNCHANGED pureVars

\* lines 102-103, one iteration of the loop over existing_master_files:
\* os.remove takes the file out of the directory it is in
UML_Remove(f) ==
  /\ pc = "uml_remove"
  /\ f \in op.todo
  /\ master' = RemoveFile(master, f)
  /\ batches' = RemoveFile(batches, f)
  /\ order' = Forget(order, f)
  /\ op' = [op EXCEPT !.todo = @ \ {f}]
  /\ UNCHANGED <<clock, ftData, pc, everWritten, ops, fails, pa>>
  /\ UNCHANGED <<fold, xl, sel, batchLog, cl>>

\* item[k] for every k of ALL_LABELS succeeds
Complete(r) == ALL_LABELS \subseteq DOMAIN r.labels

\* the first record whose line cannot be built, Len + 1 when there is none
FirstIncomplete(recs) ==
  IF \A k \in DOMAIN recs : Complete(recs[k]) THEN Len(recs) + 1
  ELSE CHOOSE k \in DOMAIN recs :
         ~Complete(recs[k]) /\ \A j \in 1..(k - 1) : Complete(recs[j])

\* lines 111-120 raise: create_system_message_with_examples cannot parse the
\* latest master file, or item[k] raises KeyError
JsonlRaises(recs) == ~LatestReadable \/ FirstIncomplete(recs) <= Len(recs)

\* the records whose lines are in the file when the generation raises
JsonlWritten(recs) ==
  IF ~LatestReadable THEN <<>> ELSE SubSeq(recs, 1, FirstIncomplete(recs) - 1)

\* the export file after a generation that ended in `outcome`: "raise" is
\* the exception of JsonlRaises, "noopen" and "partial" are I/O errors of
\* open(jsonl_file, "w") and f.write
JsonlAfter(recs, outcome, written) ==
  CASE outcome = "raise" -> JsonlRaises(recs) /\ written = JsonlWritten(recs)
    [] outcome = "noopen" -> fails < MaxFail /\ written = ftData
    [] OTHER -> /\ fails < MaxFail /\ ~JsonlRaises(recs)
                /\ \E k \in 0..(Len(recs) - 1) : written = SubSeq(recs, 1, k)

JsonlOutcomes == {"raise", "noopen", "partial"}

\* lines 108-125, after the loop: the JSONL export is rewritten from master
UML_Jsonl ==
  /\ pc = "uml_remove"
  /\ op.todo = {}
  /\ ~JsonlRaises(op.merged)
  /\ ftData' = op.merged
  /\ pc' = "idle"
  /\ op' = [op EXCEPT !.status = "ok"]
  /\ pa' = LoopAfter("ok")
  /\ UNCHANGED <<master, order, clock, everWritten, ops, fails>>
  /\ UNCHANGED pureVars

\* lines 108-120 raise: the exception leaves update_master_labels with the
\* new snapshot in place and the export as far as it was written
UML_JsonlFail(outcome) ==
  /\ pc = "uml_remove"
  /\ op.todo = {}
  /\ \E written \in SeqsUpTo(StoreRecords \cup BadRecords, Len(op.merged)) \cup {ftData} :
       /\ JsonlAfter(op.merged, outcome, written)
       /\ ftData' = written
  /\ fails' = IF outcome = "raise" THEN fails ELSE fails + 1
  /\ pc' = "idle"
  /\ op' = [op EXCEPT !.status = "jsonlfail"]
  /\ pa' = LoopAfter("jsonlfail")
  /\ UNCHANGED <<master, order, clock, everWritten, ops>>
  /\ UNCHANGED pureVars

(***************************************************************************)
(* integrate_changes_with_master(changes), change_detection.py lines       *)
(* 125-211.  Every exception is caught at line 209 and the call returns    *)
(* None.                                                                   *)
(***************************************************************************)
\* lines 131-167 and 192-194: what the call has computed when it opens the
\* new master file, for the change list c and the clock reading t
IcmPlan(c, t) ==
  LET merged == MergeIntegrate(DOMAIN master # {}, LoadedMaster, c)
  IN  [kind |-> "icm", todo |-> IF DOMAIN master = {} THEN {} ELSE {LatestOf(master)},
       latest |-> LatestOf(master), merged |-> merged,
       name |-> Name(t.sec, NoUs, Len(merged)), status |-> "run",
       input |-> "changes"]

\* line 139 raises: the latest snapshot file does not parse
ICM_LoadError ==
  /\ pc = "idle" /\ ops < MaxOps
  /\ ~LatestReadable
  /\ op' = [NoOp EXCEPT !.kind = "icm", !.latest = LatestOf(master),
                        !.status = "error", !.input = "changes"]
  /\ ops' = ops + 1
  /\ UNCHANGED <<master, order, clock, ftData, pc, everWritten, fails, pa>>
  /\ UNCHANGED pureVars

\* lines 131-172 or 188-199, the json.dump succeeds
ICM_Write(c) ==
  /\ pc = "idle" /\ ops < MaxOps
  /\ LatestReadable
  /\ \E t \in Readings(clock) :
       LET plan == IcmPlan(c, t)
       IN  /\ op' = plan
           /\ master' = WriteFile(master, plan.name, File(plan.merged))
           /\ order' = Touch(order, plan.name)
           /\ pc' = IF plan.todo # {} THEN "icm_remove" ELSE "icm_jsonl"
           /\ clock' = t
  /\ everWritten' = TRUE
  /\ ops' = ops + 1
  /\ UNCHANGED <<ftData, fails, pa>>
  /\ UNCHANGED pureVars

\* lines 171-172 or 198-199 raise: open() failed, or json.dump failed on the
\* file open() had created or truncated
ICM_WriteFail(c, outcome) ==
  /\ pc = "idle" /\ ops < MaxOps /\ fails < MaxFail
  /\ LatestReadable
  /\ outcome \in WriteOutcomes \ {"ok"}
  /\ \E t \in Readings(clock) :
       LET plan == IcmPlan(c, t)
       IN  /\ op' = [plan EXCEPT !.todo = {}, !.status = "writefail"]
           /\ IF outcome = "partial"
              THEN /\ master' = WriteFile(master, plan.name, Partial)
                   /\ order' = Touch(order, plan.name)
              ELSE UNCHANGED <<master, order>>
           /\ clock' = t
  /\ fails' = fails + 1
  /\ ops' = ops + 1
  /\ pa' = LoopAfter("writefail")
  /\ UNCHANGED <<ftData, pc, everWritten>>
  /\ UNCHANGED pureVars

\* lines 175-176: os.remove(latest_file)
ICM_Remove ==
  /\ pc = "icm_remove"
  /\ master' = RemoveFile(master, op.latest)
  /\ order' = Forget(order, op.latest)
  /\ pc' = "icm_jsonl"
  /\ op' = [op EXCEPT !.todo = {}]
  /\ UNCHANGED <<clock, ftData, everWritten, ops, fails, pa>>
  /\ UNCHANGED pureVars

\* lines 179 and 202: _generate_jsonl_from_master
ICM_Jsonl ==
  /\ pc = "icm_jsonl"
  /\ ~JsonlRaises(op.merged)
  /\ ftData' = op.merged
  /\ pc' = "idle"
  /\ op' = [op EXCEPT !.status = "ok"]
  /\ pa' = LoopAfter("ok")
  /\ UNCHANGED <<master, order, clock, everWritten, ops, fails>>
  /\ UNCHANGED pureVars

\* _generate_jsonl_from_master raises: line 209 catches it and the call
\* returns None with the new snapshot in place
ICM_JsonlFail(outcome) ==
  /\ pc = "icm_jsonl"
  /\ \E written \in SeqsUpTo(StoreRecords \cup BadRecords, Len(op.merged)) \cup {ftData} :
       /\ JsonlAfter(op.merged, outcome, written)
       /\ ftData' = written
  /\ fails' = IF outcome = "raise" THEN fails ELSE fails + 1
  /\ pc' = "idle"
  /\ op' = [op EXCEPT !.status = "jsonlfail"]
  /\ pa' = LoopAfter("jsonlfail")
  /\ UNCHANGED <<master, order, clock, everWritten, ops>>
  /\ UNCHANGED pureVars

\* the paths update_master_labels is called on
UmlFiles == { File(b) : b \in UmlBatches } \cup {Partial, NoFile}

StoreNext ==
  \/ \E f \in UmlFiles : UML_BatchError(f)
  \/ \E f \in UmlFiles : UML_LoadError(f)
  \/ \E f \in UmlFiles : UML_Write(f)
  \/ \E f \in UmlFiles, o \in WriteOutcomes : UML_WriteFail(f, o)
  \/ \E f \in op.todo : UML_Remove(f)
  \/ UML_Jsonl
  \/ \E o \in JsonlOutcomes : UML_JsonlFail(o)
  \/ ICM_LoadError
  \/ \E c \in ChangeLists : ICM_Write(c)
  \/ \E c \in ChangeLists, o \in WriteOutcomes : ICM_WriteFail(c, o)
  \/ ICM_Remove
  \/ ICM_Jsonl
  \/ \E o \in JsonlOutcomes : ICM_JsonlFail(o)

(***************************************************************************)
(* update_master_labels as a function of the snapshot content: one         *)
(* snapshot state folded with two batch files, in both orders.             *)
(***************************************************************************)
\* longest record list of the snapshot the folds start from
MaxSnapLen == 1

\* a snapshot state: no master file yet, or the record list of the latest one
NoSnapshot == [exists |-> FALSE, recs |-> <<>>]

Snapshot(recs) == [exists |-> TRUE, recs |-> recs]

Snapshots == {NoSnapshot} \cup { Snapshot(s) : s \in SeqsUpTo(Records, MaxSnapLen) }

\* lines 62-99 on the content: the snapshot one call leaves for batch file b
FoldIn(snap, b) == Snapshot(MergeUpdate(snap.exists, snap.recs, b))

\* change_detection.py lines 131-199 on the content: the snapshot
\* integrate_changes_with_master leaves for the record list c
IntegrateIn(snap, c) == Snapshot(MergeIntegrate(snap.exists, snap.recs, c))

\* s0: the snapshot before; a1, a2: after folding b1 and then b2;
\* r1, r2: after folding b2 and then b1; i1: after integrating b1 into s0
FoldIdle ==
  [phase |-> 0, s0 |-> NoSnapshot, b1 |-> <<>>, b2 |-> <<>>,
   a1 |-> NoSnapshot, a2 |-> NoSnapshot, r1 |-> NoSnapshot, r2 |-> NoSnapshot,
   i1 |-> NoSnapshot]

FoldInit == fold \in { [FoldIdle EXCEPT !.s0 = s] : s \in Snapshots }

\* the first call of each order
FoldFirst(b1, b2) ==
  /\ fold.phase = 0
  /\ fold' = [fold EXCEPT !.phase = 1, !.b1 = b1, !.b2 = b2,
                          !.a1 = FoldIn(fold.s0, b1), !.r1 = FoldIn(fold.s0, b2),
                          !.i1 = IntegrateIn(fold.s0, b1)]
  /\ UNCHANGED <<xl, storeVars, batchVars, cl>>

\* the second call of each order
FoldSecond ==
  /\ fold.phase = 1
  /\ fold' = [fold EXCEPT !.phase = 2,
                          !.a2 = FoldIn(fold.a1, fold.b2), !.r2 = FoldIn(fold.r1, fold.b1)]
  /\ UNCHANGED <<xl, storeVars, batchVars, cl>>

FoldNext ==
  \/ \E b1, b2 \in Batches : FoldFirst(b1, b2)
  \/ FoldSecond

\* the mapping id -> label vector a reader of the record list s builds
MapOf(s) == [i \in Ids(s) |-> Lookup(s, i).labels]

(***************************************************************************)
(* The spreadsheet round trip: convert_json_to_excel_rtl writes the sheet  *)
(* 'Classifications', the user edits cells, detect_changes_from_excel      *)
(* reads the sheet back and compares it with the JSON file.                *)
(***************************************************************************)
\* longest record list of the JSON file that is exported
MaxJsonLen == 2
\* number of cells the user edits in one round trip
MaxEdits == 1

\* the JSON result files: one record per text of the consolidated data
JsonFiles == { s \in SeqsUpTo(Records, MaxJsonLen) : NoDupIds(s) }

\* a cell of a label column: a number, or empty (read back as NaN)
Cell(v) == [blank |-> FALSE, v |-> v]

BlankCell == [blank |-> TRUE, v |-> 0]

\* the value of a cell that holds text int() does not parse
NotANumber == -1

TextCell == [blank |-> FALSE, v |-> NotANumber]

\* excel_export.py lines 67-88: the row of one record; len is the
\* text_length column, present only with include_length_column
ExportRow(record, lencol, manualIds) ==
  [id |-> record.id, text |-> record.text,
   len |-> IF lencol THEN <<TextLen(record.text)>> ELSE <<>>,
   cells |-> [l \in ALL_LABELS |-> Cell(Get(record, l))],
   source |-> IF record.id \in manualIds THEN "manual" ELSE "model"]

\* lines 14-27 and 51-61: the records exported; manual is the latest master
\* file, and `if manual_data` is false without a file and for an empty list
ExportData(data, manual, include_manual) ==
  IF include_manual /\ manual.exists /\ manual.recs # <<>>
  THEN data \o manual.recs ELSE data

\* source_info after lines 57-61
ManualIds(manual, include_manual) ==
  IF include_manual /\ manual.exists /\ manual.recs # <<>> THEN Ids(manual.recs) ELSE {}

\* lines 92-102: the row orders df.sort_values(length) can give
SortedOrders(rows) ==
  { p \in [DOMAIN rows -> DOMAIN rows] :
      /\ \A j, k \in DOMAIN rows : p[j] = p[k] => j = k
      /\ \A j, k \in DOMAIN rows :
           j < k => TextLen(rows[p[j]].text) <= TextLen(rows[p[k]].text) }

\* lines 45-115: the sheets one export can write
ExportSheets(data, manual, include_manual, sort_by_length, lencol) ==
  LET recs == ExportData(data, manual, include_manual)
      rows == [k \in DOMAIN recs |->
                 ExportRow(recs[k], lencol, ManualIds(manual, include_manual))]
  IN  IF sort_by_length
      THEN { [k \in DOMAIN rows |-> rows[p[k]]] : p \in SortedOrders(rows) }
      ELSE { rows }

\* change_detection.py line 73: int(cell) for a number, 0 for NaN
CellValue(c) == IF c.blank THEN 0 ELSE c.v

\* row.get(category, 0): the cell of the row, 0 when the sheet has no such column
RowGet(row, l) == IF l \in DOMAIN row.cells THEN row.cells[l] ELSE Cell(0)

\* the label vector line 73 reads from a row
RowVec(row) == [l \in ALL_LABELS |-> CellValue(RowGet(row, l))]

\* line 73 raises ValueError: int() of a text cell, in a row that is compared
RowRaises(original_data, row) ==
  /\ row.id \in Ids(original_data)
  /\ \E l \in ALL_LABELS : RowGet(row, l) = TextCell

\* a row of an unknown id turned into a record of its own
RowChange_Fabricate(original_data, row) ==
  IF row.id \notin Ids(original_data)
  THEN <<Rec(row.id, row.text, RowVec(row))>>
  ELSE LET original_record == Lookup(original_data, row.id)
       IN  IF \E l \in ALL_LABELS : Get(original_record, l) # RowVec(row)[l]
           THEN <<Rec(row.id, original_record.text, RowVec(row))>>
           ELSE <<>>

\* lines 55-81, one row: the change record it yields, if any
RowChange(original_data, row) ==
  IF row.id \notin Ids(original_data) THEN <<>>
  ELSE LET original_record == Lookup(original_data, row.id)
       IN  IF \E l \in ALL_LABELS : Get(original_record, l) # RowVec(row)[l]
           THEN <<Rec(row.id, original_record.text, RowVec(row))>>
           ELSE <<>>

\* row k of the sheet compared with record k of the JSON file
RECURSIVE DetectFrom_ByPosition(_, _, _)
DetectFrom_ByPosition(original_data, sheet, k) ==
  IF k > Len(sheet) THEN <<>>
  ELSE (IF k <= Len(original_data)
           /\ \E l \in ALL_LABELS : Get(original_data[k], l) # RowVec(sheet[k])[l]
        THEN <<Rec(original_data[k].id, original_data[k].text, RowVec(sheet[k]))>>
        ELSE <<>>)
       \o DetectFrom_ByPosition(original_data, sheet, k + 1)

\* detect_changes_from_excel, lines 44-83
RECURSIVE DetectFrom(_, _, _)
DetectFrom(original_data, sheet, k) ==
  IF k > Len(sheet) THEN <<>>
  ELSE RowChange(original_data, sheet[k]) \o DetectFrom(original_data, sheet, k + 1)

DetectChanges(original_data, sheet) == DetectFrom(original_data, sheet, 1)

\* detect_changes_from_excel raises; process_excel_changes catches it at
\* lines 255-257 and returns (None, None)
DetectRaises(original_data, sheet) ==
  \E k \in DOMAIN sheet : RowRaises(original_data, sheet[k])

\* orig: the JSON file; manual: the latest master file at export time;
\* opts: the export options; sheet: the rows of the spreadsheet;
\* edits: cells edited so far; changes: what detection returned;
\* saved: the content of the MANUAL_LABEL_EXCEL file; before, snap: the
\* latest master file before and after the integration; again: what a
\* detection of the same sheet against snap returns
XlIdle ==
  [phase |-> "json", orig |-> <<>>, manual |-> NoSnapshot,
   opts |-> [manual |-> FALSE, sorted |-> FALSE, lencol |-> FALSE],
   sheet |-> <<>>, edits |-> 0, changes |-> <<>>,
   saved |-> <<>>, before |-> NoSnapshot, snap |-> NoSnapshot, again |-> <<>>]

XlInit == xl \in { [XlIdle EXCEPT !.orig = s] : s \in JsonFiles }

\* convert_json_to_excel_rtl(json_path, include_manual, sort_by_length,
\* include_length_column)
Export(manual, include_manual, sort_by_length, lencol) ==
  /\ xl.phase = "json"
  /\ include_manual \/ manual = NoSnapshot
  /\ \E sh \in ExportSheets(xl.orig, manual, include_manual, sort_by_length, lencol) :
       xl' = [xl EXCEPT !.phase = "sheet", !.manual = manual, !.sheet = sh,
                        !.opts = [manual |-> include_manual, sorted |-> sort_by_length,
                                  lencol |-> lencol]]
  /\ UNCHANGED <<fold, storeVars, batchVars, cl>>

\* the user overwrites or empties one label cell
EditLabel(k, l, c) ==
  /\ xl.phase = "sheet" /\ xl.edits < MaxEdits
  /\ k \in DOMAIN xl.sheet
  /\ l \in DOMAIN xl.sheet[k].cells
  /\ c # xl.sheet[k].cells[l]
  /\ xl' = [xl EXCEPT !.sheet[k].cells[l] = c, !.edits = @ + 1]
  /\ UNCHANGED <<fold, storeVars, batchVars, cl>>

\* the user rewrites one text cell
EditText(k) ==
  /\ xl.phase = "sheet" /\ xl.edits < MaxEdits
  /\ k \in DOMAIN xl.sheet
  /\ xl.sheet[k].text # "edited"
  /\ xl' = [xl EXCEPT !.sheet[k].text = "edited", !.edits = @ + 1]
  /\ UNCHANGED <<fold, storeVars, batchVars, cl>>

\* the user rewrites one id cell to an id no record of the JSON file has
EditId(k) ==
  /\ xl.phase = "sheet" /\ xl.edits < MaxEdits
  /\ k \in DOMAIN xl.sheet
  /\ xl.sheet[k].id # "unknown"
  /\ xl' = [xl EXCEPT !.sheet[k].id = "unknown", !.edits = @ + 1]
  /\ UNCHANGED <<fold, storeVars, batchVars, cl>>

\* the user deletes one label column
DropColumn(l) ==
  /\ xl.phase = "sheet" /\ xl.edits < MaxEdits
  /\ xl.sheet # <<>>
  /\ \A k \in DOMAIN xl.sheet : l \in DOMAIN xl.sheet[k].cells
  /\ xl' = [xl EXCEPT
              !.sheet = [k \in DOMAIN xl.sheet |->
                           [xl.sheet[k] EXCEPT
                              !.cells = [m \in DOMAIN xl.sheet[k].cells \ {l} |->
                                           xl.sheet[k].cells[m]]]],
              !.edits = @ + 1]
  /\ UNCHANGED <<fold, storeVars, batchVars, cl>>

\* detect_changes_from_excel(original_json_path, excel_path) as
\* process_excel_changes runs it: the change list, or the error it catches
Detect ==
  /\ xl.phase = "sheet"
  /\ xl' = IF DetectRaises(xl.orig, xl.sheet)
           THEN [xl EXCEPT !.phase = "error"]
           ELSE [xl EXCEPT !.phase = "detected",
                           !.changes = DetectChanges(xl.orig, xl.sheet)]
  /\ UNCHANGED <<fold, storeVars, batchVars, cl>>

\* the latest master file process_excel_changes can find: none, the one the
\* export read, or the exported JSON file itself when that is the snapshot
MastersAtIntegration ==
  {NoSnapshot, xl.manual, Snapshot(xl.orig)}

\* process_excel_changes lines 233-246 with integrate=True: return when no
\* change was found, else save_manual_changes and
\* integrate_changes_with_master on the latest master file m
Integrate(m) ==
  /\ xl.phase = "detected"
  /\ xl.changes # <<>>
  /\ m \in MastersAtIntegration
  /\ xl' = [xl EXCEPT !.phase = "integrated", !.saved = xl.changes,
                       !.before = m, !.snap = IntegrateIn(m, xl.changes)]
  /\ UNCHANGED <<fold, storeVars, batchVars, cl>>

\* detect_changes_from_excel with the new master file as original and the
\* same spreadsheet
Redetect ==
  /\ xl.phase = "integrated"
  /\ xl' = [xl EXCEPT !.phase = "redetected",
                       !.again = DetectChanges(xl.snap.recs, xl.sheet)]
  /\ UNCHANGED <<fold, storeVars, batchVars, cl>>

XlNext ==
  \/ \E m \in Snapshots, im, sl, lc \in BOOLEAN : Export(m, im, sl, lc)
  \/ \E k \in 1..(2 * MaxJsonLen), l \in ALL_LABELS,
          c \in {Cell(0), Cell(1), BlankCell, TextCell} : EditLabel(k, l, c)
  \/ \E k \in 1..(2 * MaxJsonLen) : EditText(k)
  \/ \E k \in 1..(2 * MaxJsonLen) : EditId(k)
  \/ \E l \in ALL_LABELS : DropColumn(l)
  \/ Detect
  \/ \E m \in Snapshots \cup { Snapshot(d) : d \in JsonFiles } : Integrate(m)
  \/ Redetect

(***************************************************************************)
(* The batch directory (outputs/manual_labeling/batches): the batch files  *)
(* process_batch_for_labeling and save_manual_changes record, and          *)
(* cleanup_old_files.  A name is kept from the strategy tag on:            *)
(* MANUAL_LABEL_<TAG>_AT-<timestamp>..., the prefix and the %Y%m%d_%H%M    *)
(* part of the timestamp being the same in every name of the model.  The   *)
(* example count is 30 and the model is "m" in every name.                 *)
(***************************************************************************)
\* largest keep_latest given to cleanup_old_files
MaxKeep == 1
\* number of cleanup_old_files calls in one run
MaxCleanups == 1

BatchTags == {"LONGEST", "SHORTEST", "MEDIUM", "RANDOM", "EXCEL"}

BatchName(tag, sec, size) == [tag |-> tag, sec |-> sec, size |-> size]

\* selection_method.upper(), or EXCEL
TagStr(tag) ==
  CASE tag = "LONGEST" -> <<76, 79, 78, 71, 69, 83, 84>>
    [] tag = "SHORTEST" -> <<83, 72, 79, 82, 84, 69, 83, 84>>
    [] tag = "MEDIUM" -> <<77, 69, 68, 73, 85, 77>>
    [] tag = "RANDOM" -> <<82, 65, 78, 68, 79, 77>>
    [] OTHER -> <<69, 88, 67, 69, 76>>

\* "_AT-"
AtTag == <<95, 65, 84, 45>>

\* "_NUM_EXAMPLES_IN_PROMPT_30_SAMPLE_SIZE_"
PromptSizeTag == <<95, 78, 85, 77, 95, 69, 88, 65, 77, 80, 76, 69, 83, 95, 73, 78, 95, 80, 82, 79, 77, 80, 84, 95, 51, 48, 95, 83, 65, 77, 80, 76, 69, 95, 83, 73, 90, 69, 95>>

\* "_SAMPLE_SIZE_"
SampleSizeTag == <<95, 83, 65, 77, 80, 76, 69, 95, 83, 73, 90, 69, 95>>

\* "_MODEL-m_.json"
ModelExt == <<95, 77, 79, 68, 69, 76, 45, 109, 95, 46, 106, 115, 111, 110>>

\* batch_processor.py line 155 and change_detection.py line 96
BatchNameStr(n) ==
  TagStr(n.tag) \o AtTag \o FmtSec(n.sec)
    \o (IF n.tag = "EXCEL" THEN SampleSizeTag \o Dec(n.size) \o JsonExt
        ELSE PromptSizeTag \o Dec(n.size) \o ModelExt)

\* file_ops.py line 17: the batch files a listing shows
Listing(dir) == DOMAIN dir

\* sorted(to_label_files): the place of name n, 1 for the smallest
PlaceOf(names, n) ==
  1 + Cardinality({ m \in names : LexLess(BatchNameStr(m), BatchNameStr(n)) })

\* sorted_files[:-keep_latest]: of a list of len places, the places before
\* len - keep_latest, and none for keep_latest = 0 since [:-0] is [:0]
SliceBefore(len, keep_latest) ==
  IF keep_latest = 0 THEN {} ELSE 1..(len - keep_latest)

\* cleanup_old_files, lines 17-25: the files it deletes
FilesToDelete(dir, keep_latest) ==
  LET to_label_files == Listing(dir)
  IN  IF Cardinality(to_label_files) <= keep_latest THEN {}
      ELSE { n \in to_label_files :
               PlaceOf(to_label_files, n)
                 \in SliceBefore(Cardinality(to_label_files), keep_latest) }

\* names: the names given to the batches recorded, oldest first;
\* cleanups: calls of cleanup_old_files; keep: keep_latest of the last call
NoBatchLog == [names |-> <<>>, cleanups |-> 0, keep |-> 0]

\* the records of a batch of predictions: one per selected row
BatchContents == { c \in ChangeLists : NoDupIds(c) }

\* open(name, 'w') + json.dump in the batch directory and its outcome
Persist(name, recs, outcome, t) ==
  /\ outcome \in WriteOutcomes
  /\ ops < MaxOps
  /\ outcome # "ok" => fails < MaxFail
  /\ batches' = CASE outcome = "ok" -> WriteFile(batches, name, File(recs))
                  [] outcome = "partial" -> WriteFile(batches, name, Partial)
                  [] OTHER -> batches
  /\ batchLog' = IF outcome = "noopen" THEN batchLog
                 ELSE [batchLog EXCEPT !.names = Append(@, name)]
  /\ fails' = IF outcome = "ok" THEN fails ELSE fails + 1
  /\ ops' = ops + 1
  /\ clock' = t
  /\ UNCHANGED <<fold, xl, sel, master, order, ftData, pc, op, everWritten, pa, cl>>

\* process_batch_for_labeling, lines 150-158, for the records of a batch
RecordBatch(tag, batch_size, records, outcome) ==
  /\ tag \in BatchTags \ {"EXCEL"}
  /\ Len(records) <= batch_size
  /\ \E t \in Readings(clock) :
       Persist(BatchName(tag, t.sec, batch_size), records, outcome, t)

\* save_manual_changes(changes), lines 88-102
SaveManualChanges(changes, outcome) ==
  \E t \in Readings(clock) :
    Persist(BatchName("EXCEL", t.sec, Len(changes)), changes, outcome, t)

\* cleanup_old_files(keep_latest), lines 12-33
Cleanup(keep_latest) ==
  /\ batchLog.cleanups < MaxCleanups
  /\ batches' = [n \in DOMAIN batches \ FilesToDelete(batches, keep_latest) |->
                   batches[n]]
  /\ batchLog' = [batchLog EXCEPT !.cleanups = @ + 1, !.keep = keep_latest]
  /\ UNCHANGED <<fold, xl, sel, storeVars, cl>>

BatchNext ==
  \/ \E tag \in BatchTags, k \in 1..MaxBatchLen, c \in BatchContents,
        o \in WriteOutcomes : RecordBatch(tag, k, c, o)
  \/ \E c \in ChangeLists, o \in WriteOutcomes : SaveManualChanges(c, o)
  \/ \E k \in 0..MaxKeep : Cleanup(k)

(***************************************************************************)
(* Batch selection, batch_processor.py lines 14-87 and 131-144.  The data  *)
(* frame is the sequence of its rows' text lengths; row k has index k and  *)
(* an id of its own.                                                       *)
(***************************************************************************)
\* most rows of the data frame
MaxRows == 3
\* longest text_content of a row
MaxTextLen == 3

\* the consolidated data frame: one row per text, no text empty
DataFrames == SeqsUpTo(1..MaxTextLen, MaxRows)

\* every row taken whether it is labeled or not
Unlabeled_All(lens, labeled_ids) == DOMAIN lens

\* df[~df["id"].isin(labeled_ids)]
Unlabeled(lens, labeled_ids) == { r \in DOMAIN lens : r \notin labeled_ids }

RECURSIVE SumOver(_, _)
SumOver(lens, rows) ==
  IF rows = {} THEN 0
  ELSE LET r == CHOOSE x \in rows : TRUE
       IN  lens[r] + SumOver(lens, rows \ {r})

\* abs(text_lengths - avg_length), scaled by the number of unlabeled rows
DistanceFromAvg(lens, rows) ==
  [r \in rows |->
     LET d == lens[r] * Cardinality(rows) - SumOver(lens, rows)
     IN  IF d < 0 THEN 0 - d ELSE d]

\* the place of row r with rows of equal key in reverse order (keep='last')
Rank_KeepLast(key, rows, r) ==
  1 + Cardinality({ c \in rows : key[c] < key[r] \/ (key[c] = key[r] /\ c > r) })

\* the place of row r when rows are ordered by key, rows of equal key in
\* their original order (keep='first')
Rank(key, rows, r) ==
  1 + Cardinality({ c \in rows : key[c] < key[r] \/ (key[c] = key[r] /\ c < r) })

\* nsmallest(n, keep='first') over the rows: the n rows of smallest key
NSmallest(key, rows, n) ==
  [i \in 1..n |-> CHOOSE r \in rows : Rank(key, rows, r) = i]

\* nlargest(n, keep='first')
NLargest(key, rows, n) == NSmallest([r \in rows |-> 0 - key[r]], rows, n)

\* sample(n, random_state=42): n rows without replacement
Samples(rows, n) ==
  { b \in [1..n -> rows] : \A i, j \in 1..n : b[i] = b[j] => i = j }

SelectionMethods == {"longest", "shortest", "medium", "random"}

\* lines 134-141: the batches the selection can return
SelectBatch(lens, labeled_ids, batch_size, selection_method) ==
  LET unlabeled == Unlabeled(lens, labeled_ids)
      n == IF batch_size < Cardinality(unlabeled) THEN batch_size
           ELSE Cardinality(unlabeled)
      key == [r \in unlabeled |-> lens[r]]
  IN  IF unlabeled = {} THEN { <<>> }
      ELSE CASE selection_method = "longest" -> { NLargest(key, unlabeled, n) }
             [] selection_method = "shortest" -> { NSmallest(key, unlabeled, n) }
             [] selection_method = "medium" ->
                  { NSmallest(DistanceFromAvg(lens, unlabeled), unlabeled, n) }
             [] OTHER -> Samples(unlabeled, n)

\* lens: the data frame; labeled: labeled_ids; batch: the rows selected;
\* result: "file" when the batch goes on to be classified and saved, "none"
\* when process_batch_for_labeling returns (None, None)
SelIdle ==
  [phase |-> "df", lens |-> <<>>, labeled |-> {}, method |-> "none", size |-> 0,
   batch |-> <<>>, result |-> "none"]

SelInit ==
  sel \in { [SelIdle EXCEPT !.lens = d, !.labeled = ids] :
              d \in DataFrames, ids \in SUBSET (1..MaxRows) }

\* process_batch_for_labeling, lines 133-144
Select(selection_method, batch_size) ==
  /\ sel.phase = "df"
  /\ \E b \in SelectBatch(sel.lens, sel.labeled, batch_size, selection_method) :
       sel' = [sel EXCEPT !.phase = "selected", !.method = selection_method,
                          !.size = batch_size, !.batch = b,
                          !.result = IF b = <<>> THEN "none" ELSE "file"]
  /\ UNCHANGED <<fold, xl, batches, batchLog, storeVars, cl>>

SelNext ==
  \E m \in SelectionMethods, k \in 0..(MaxRows + 1) : Select(m, k)

\* nothing recorded in the batch directory, no selection made
BatchIdle == sel = SelIdle /\ batches = EmptyDir /\ batchLog = NoBatchLog

(***************************************************************************)
(* Record ids, the labeled-id set and the classification loops:            *)
(* create_stable_ids, load_labeled_ids and prepare_for_labeling of         *)
(* label_manager.py, classify_batch_with_api and                           *)
(* process_batch_for_labeling of batch_processor.py,                       *)
(* classify_unlabeled_data_with_fine_tuned_model of bulk_classifier.py.    *)
(***************************************************************************)
\* most rows of a data frame handed to a run
MaxDfLen == 2
\* runs (labeling batches, bulk classifications, preparations) in a row
MaxRuns == 2

Texts == {"ta", "tbb", "tcc"}

\* hashlib.md5(x.encode('utf-8')).hexdigest()[:8] of the three texts
StableId(text) ==
  CASE text = "ta" -> "r1" [] text = "tbb" -> "r2" [] OTHER -> "r3"

\* an id given by the place of the row
CreateStableIds_ByRow(texts) ==
  [k \in DOMAIN texts |-> CASE k = 1 -> "r1" [] k = 2 -> "r2" [] OTHER -> "r3"]

\* create_stable_ids(df): the id column
CreateStableIds(texts) == [k \in DOMAIN texts |-> StableId(texts[k])]

\* data frames with a text_content column
TextFrames == SeqsUpTo(Texts, MaxDfLen)

\* load_labeled_ids(labeled_json_file) on the master directory dir; named is
\* NoName for None.  ok is FALSE when json.load raises
LoadLabeledIds(dir, named) ==
  LET file == IF named = NoName THEN LatestOf(dir) ELSE named
  IN  IF named = NoName /\ DOMAIN dir = {} THEN [ok |-> TRUE, ids |-> {}]
      ELSE IF file \notin DOMAIN dir THEN [ok |-> TRUE, ids |-> {}]
      ELSE IF dir[file].valid THEN [ok |-> TRUE, ids |-> Ids(dir[file].recs)]
      ELSE [ok |-> FALSE, ids |-> {}]

\* the rows of a frame whose id is not in labeled_ids, in frame order
UnlabeledRows(ids, labeled_ids) ==
  SelectSeq([k \in DOMAIN ids |-> k], LAMBDA k : ids[k] \notin labeled_ids)

\* the outcomes of one client.chat.completions.create call followed by
\* json.loads of the answer
CallOutcomes == {"ok", "transport", "malformed"}

\* texts, ids: the data frame in memory and its id column (<<>> without
\* one); named, loaded, labeled: the argument and the result of
\* load_labeled_ids; seen: the ids given to texts so far, with the row;
\* mode: which loop runs; batch: the rows to classify; size: the chunk size
\* of the bulk loop; calls: the outcomes of the calls made; records: the
\* predictions held in memory; files: the prediction files written;
\* returned: the predictions handed back to the caller
ClIdle ==
  [phase |-> "none", runs |-> 0, texts |-> <<>>, ids |-> <<>>,
   named |-> NoName, loaded |-> "none", labeled |-> {}, seen |-> {},
   mode |-> "none", batch |-> <<>>, size |-> 0, calls |-> <<>>,
   records |-> <<>>, files |-> <<>>, returned |-> <<>>]

\* the master directories a run can find: none, one snapshot, one file a
\* failed write left behind
ClMasters ==
  {EmptyDir}
    \cup { WriteFile(EmptyDir, Name(0, NoUs, Len(b)), File(b)) :
             b \in SeqsUpTo(StoreRecords, 1) }
    \cup { WriteFile(EmptyDir, Name(0, NoUs, 1), Partial) }

\* the snapshot paths a caller can name
NamedFiles == {NoName, Name(0, NoUs, 1), Name(1, NoUs, 1)}

ClInit ==
  /\ cl = ClIdle
  /\ master \in ClMasters

\* the bookkeeping of an id column written for texts
Seen(texts, ids) == { [text |-> texts[k], id |-> ids[k], row |-> k] : k \in DOMAIN texts }

\* the state of cl after the frame texts got its ids and load_labeled_ids
\* ran on named
Prepared(texts, ids, named) ==
  LET l == LoadLabeledIds(master, named)
  IN  [ClIdle EXCEPT !.runs = cl.runs + 1, !.texts = texts, !.ids = ids,
                     !.named = named, !.labeled = l.ids,
                     !.loaded = IF l.ok THEN "ok" ELSE "error",
                     !.phase = IF l.ok THEN "prepared" ELSE "error",
                     !.seen = cl.seen \cup Seen(texts, ids)]

\* prepare_for_labeling(all_df, labeled_json_file), lines 128-141
PrepareForLabeling(texts, named) ==
  /\ cl.phase # "classifying" /\ cl.runs < MaxRuns
  /\ named # NoName
  /\ cl' = Prepared(texts, CreateStableIds(texts), named)
  /\ UNCHANGED <<fold, xl, batchVars, storeVars>>

\* run_single_labeling_batch, menu_handlers.py lines 124-134, up to the
\* first API call: ids, labeled ids, the batch; with batch_size rows or more
\* unlabeled the batch is batch_size of them (the strategies are those of
\* SelectBatch), here the first ones
RunSingleLabelingBatch(texts, batch_size) ==
  /\ cl.phase # "classifying" /\ cl.runs < MaxRuns
  /\ LET p == Prepared(texts, CreateStableIds(texts), NoName)
         u == UnlabeledRows(p.ids, p.labeled)
         b == SubSeq(u, 1, IF batch_size < Len(u) THEN batch_size ELSE Len(u))
     IN  cl' = IF p.phase = "error" THEN p
               ELSE [p EXCEPT !.mode = "api", !.batch = b, !.size = batch_size,
                              !.phase = IF b = <<>> THEN "returned" ELSE "classifying"]
  /\ UNCHANGED <<fold, xl, batchVars, storeVars>>

\* classify_unlabeled_data_with_fine_tuned_model, lines 16-46: the frame in
\* memory keeps its id column when it has one (reload = FALSE), a frame
\* read again gets one
BulkClassify(texts, reload, include_manual, batch_size) ==
  /\ cl.phase # "classifying" /\ cl.runs < MaxRuns
  /\ reload \/ (texts = cl.texts /\ cl.ids # <<>>)
  /\ LET ids == IF reload THEN CreateStableIds(texts) ELSE cl.ids
         p == Prepared(texts, ids, NoName)
         b == IF include_manual THEN [k \in DOMAIN ids |-> k]
              ELSE UnlabeledRows(p.ids, p.labeled)
     IN  cl' = IF p.phase = "error" THEN p
               ELSE [p EXCEPT !.mode = "bulk", !.batch = b, !.size = batch_size,
                              !.phase = IF b = <<>> THEN "returned" ELSE "classifying"]
  /\ UNCHANGED <<fold, xl, batchVars, storeVars>>

\* the bulk loop has filled a chunk after n calls
ChunkEnds(n) == n % cl.size = 0 \/ n = Len(cl.batch)

\* the records of the chunk that ends with call n
Chunk(records, n) ==
  SubSeq(records, n - ((n - 1) % cl.size), n)

\* one iteration of the loop of classify_batch_with_api (lines 106-126) or
\* of the bulk classifier (lines 58-93), and what follows the last one:
\* process_batch_for_labeling lines 150-166, bulk_classifier.py lines 95-111.
\* No call is inside a try block: an exception of the call or of json.loads
\* ends the function
Classify(outcome) ==
  /\ cl.phase = "classifying"
  /\ LET n == Len(cl.calls) + 1
         records == Append(cl.records, cl.ids[cl.batch[n]])
     IN  cl' =
           IF outcome # "ok"
           THEN [cl EXCEPT !.calls = Append(@, outcome), !.phase = "aborted",
                           !.records = <<>>]
           ELSE [cl EXCEPT
                   !.calls = Append(@, outcome),
                   !.records = records,
                   !.files = IF cl.mode = "bulk" /\ ChunkEnds(n)
                             THEN Append(@, Chunk(records, n))
                             ELSE IF cl.mode = "api" /\ n = Len(cl.batch)
                             THEN Append(@, records) ELSE @,
                   !.returned = IF n = Len(cl.batch) THEN records ELSE @,
                   !.phase = IF n = Len(cl.batch) THEN "returned" ELSE "classifying"]
  /\ UNCHANGED <<fold, xl, batchVars, storeVars>>

ClNext ==
  \/ \E t \in TextFrames, f \in NamedFiles : PrepareForLabeling(t, f)
  \/ \E t \in TextFrames, k \in 1..MaxDfLen : RunSingleLabelingBatch(t, k)
  \/ \E t \in TextFrames, r, m \in BOOLEAN, k \in 1..MaxDfLen : BulkClassify(t, r, m, k)
  \/ \E o \in CallOutcomes : Classify(o)

(***************************************************************************)
(* The 'Process ALL files' mode of the main menu, main.py lines 95-143:    *)
(* every file of the batch directory is handed to update_master_labels,    *)
(* in the order of the timestamps in the names.                            *)
(***************************************************************************)
\* most files of the batch directory when the mode is chosen
MaxFiles == 2

\* the strategies the batch files of the model were recorded with
AllTags == {"LONGEST", "SHORTEST", "EXCEL"}

\* the names of those files
AllNames == { BatchName(tag, sec, 1) : tag \in AllTags, sec \in 0..MaxSec }

\* what a batch file holds after the manual correction: a record list, or
\* what a failed write left
AllContents ==
  { File(b) : b \in SeqsUpTo(StoreRecords \cup BadRecords, 1) } \cup {Partial}

\* the batch directories the mode is started on
AllDirs ==
  UNION { [names -> AllContents] :
            names \in { ns \in SUBSET AllNames : Cardinality(ns) <= MaxFiles } }

\* the whole file name as the key
ExtractTimestamp_WholeName(n) == BatchNameStr(n)

\* lines 116-125: filename.split('_AT-')[1].split('_NUM_EXAMPLES_IN_PROMPT')[0];
\* a name without _NUM_EXAMPLES_IN_PROMPT keeps all that follows _AT-
ExtractTimestamp(n) ==
  FmtSec(n.sec)
    \o (IF n.tag = "EXCEL" THEN SampleSizeTag \o Dec(n.size) \o JsonExt ELSE <<>>)

\* line 127, sorted(to_label_files, key=extract_timestamp): the sort is
\* stable and os.listdir gives the names in any order, so files of equal
\* key come in any order
SortedFiles(dir) ==
  { p \in [1..Cardinality(Listing(dir)) -> Listing(dir)] :
      /\ \A j, k \in DOMAIN p : p[j] = p[k] => j = k
      /\ \A j, k \in DOMAIN p :
           j < k => ~LexLess(ExtractTimestamp(p[k]), ExtractTimestamp(p[j])) }

\* the file a path names
ReadPath(dir, n) == IF n \in DOMAIN dir THEN dir[n] ELSE NoFile

\* line 130: the file of this iteration
CurrentFile == ReadPath(batches, pa.files[Len(pa.done) + 1])

\* lines 129-139: the loop body is update_master_labels(file_path) inside
\* try/except
AllNext ==
  \/ Len(pa.done) < Len(pa.files) /\ UML_BatchError(CurrentFile)
  \/ Len(pa.done) < Len(pa.files) /\ UML_LoadError(CurrentFile)
  \/ Len(pa.done) < Len(pa.files) /\ UML_Write(CurrentFile)
  \/ \E o \in WriteOutcomes :
       Len(pa.done) < Len(pa.files) /\ UML_WriteFail(CurrentFile, o)
  \/ \E f \in op.todo : UML_Remove(f)
  \/ UML_Jsonl
  \/ \E o \in JsonlOutcomes : UML_JsonlFail(o)

(***************************************************************************)
(* Specifications.                                                         *)
(***************************************************************************)
vars ==
  <<fold, xl, sel, batches, batchLog, cl,
    master, order, clock, ftData, pc, op, everWritten, ops, fails, pa>>

\* the master store under any sequence of fold-ins
Init == StoreInit /\ fold = FoldIdle /\ xl = XlIdle /\ BatchIdle /\ cl = ClIdle

Next == StoreNext

Spec == Init /\ [][Next]_vars

\* folds of one snapshot content
InitFold == FoldInit /\ xl = XlIdle /\ StoreInit /\ BatchIdle /\ cl = ClIdle

SpecFold == InitFold /\ [][FoldNext]_vars

\* one spreadsheet round trip
InitExcel == XlInit /\ fold = FoldIdle /\ StoreInit /\ BatchIdle /\ cl = ClIdle

SpecExcel == InitExcel /\ [][XlNext]_vars

\* one batch selection
InitSelect ==
  SelInit /\ batches = EmptyDir /\ batchLog = NoBatchLog
    /\ fold = FoldIdle /\ xl = XlIdle /\ StoreInit /\ cl = ClIdle

SpecSelect == InitSelect /\ [][SelNext]_vars

\* the batch directory under recordings and cleanups
InitBatch ==
  sel = SelIdle /\ batches = EmptyDir /\ batchLog = NoBatchLog
    /\ fold = FoldIdle /\ xl = XlIdle /\ StoreInit /\ cl = ClIdle

SpecBatch == InitBatch /\ [][BatchNext]_vars

\* runs of the labeling and bulk classification workflows on a master
\* directory
InitClassify ==
  /\ ClInit
  /\ order = <<>> /\ clock = ClockInit /\ ftData = <<>> /\ pc = "idle" /\ op = NoOp
  /\ everWritten = FALSE /\ ops = 0 /\ fails = 0 /\ pa = PaIdle
  /\ fold = FoldIdle /\ xl = XlIdle /\ BatchIdle

SpecClassify == InitClassify /\ [][ClNext]_vars

\* the 'Process ALL files' loop on a batch directory, from an empty master
\* directory
InitAll ==
  /\ batches \in AllDirs
  /\ pa \in { [mode |-> "all", files |-> p, done |-> <<>>] : p \in SortedFiles(batches) }
  /\ master = EmptyDir /\ order = <<>> /\ clock = ClockInit /\ ftData = <<>>
  /\ pc = "idle" /\ op = NoOp /\ everWritten = FALSE /\ ops = 0 /\ fails = 0
  /\ sel = SelIdle /\ batchLog = NoBatchLog
  /\ fold = FoldIdle /\ xl = XlIdle /\ cl = ClIdle

SpecAll == InitAll /\ [][AllNext]_vars

(***************************************************************************)
(* Properties of the fold-in as a function of the snapshot content.        *)
(***************************************************************************)
\* C1: folding the same batch file in twice in a row leaves the same record
\* list (same records, same label vectors, same order) as folding it in once,
\* from every snapshot state including "no snapshot yet".
C1_Idempotent ==
  (fold.phase = 2 /\ fold.b1 = fold.b2) => fold.a2.recs = fold.a1.recs

\* R is a last-write-wins merge of batch B into the record list S: R holds the
\* ids of S and of B; a record of R whose id B names is a record of B, and a
\* lookup of that id gives the vector B's lookup gives; every other record
\* of R carries the vector S has for its id
LastWriteWins(S, B, R) ==
  /\ Ids(R) = Ids(S) \cup Ids(B)
  /\ \A k \in DOMAIN R :
       IF R[k].id \in Ids(B)
       THEN \E j \in DOMAIN B : B[j] = R[k]
       ELSE R[k].labels = Lookup(S, R[k].id).labels
  /\ \A i \in Ids(B) : Lookup(R, i).labels = Lookup(B, i).labels

B1_Example == <<Rec("r1", TextOf("r1"), Vec(1, 0)), Rec("r2", TextOf("r2"), Vec(0, 1))>>

B2_Example == <<Rec("r2", TextOf("r2"), Vec(1, 1)), Rec("r3", TextOf("r3"), Vec(0, 0))>>

\* C3: update_master_labels(B) on snapshot S leaves a snapshot with the ids
\* of S and of B, in which every id of B carries B's label vector and every
\* id of S that B does not name keeps its vector; folding {r1:[1,0], r2:[0,1]}
\* and then {r2:[1,1], r3:[0,0]} into an empty store leaves 3 records with
\* r2 = [1,1] and r1 = [1,0].
C3_LastWriteWins ==
  /\ fold.phase >= 1 =>
       /\ LastWriteWins(fold.s0.recs, fold.b1, fold.a1.recs)
       /\ LastWriteWins(fold.s0.recs, fold.b2, fold.r1.recs)
  /\ fold.phase = 2 =>
       /\ LastWriteWins(fold.a1.recs, fold.b2, fold.a2.recs)
       /\ LastWriteWins(fold.r1.recs, fold.b1, fold.r2.recs)
  /\ (fold.phase = 2 /\ ~fold.s0.exists /\ fold.b1 = B1_Example /\ fold.b2 = B2_Example) =>
       /\ Len(fold.a2.recs) = 3
       /\ MapOf(fold.a2.recs)["r2"] = Vec(1, 1)
       /\ MapOf(fold.a2.recs)["r1"] = Vec(1, 0)

\* the example of C3 has run: both batches are folded into the empty store
\* and the second one has overwritten r2
C3_Witness ==
  /\ fold.phase = 2 /\ ~fold.s0.exists
  /\ fold.b1 = B1_Example /\ fold.b2 = B2_Example
  /\ Len(fold.a1.recs) = 2
  /\ Lookup(fold.a2.recs, "r2").labels # Lookup(fold.a1.recs, "r2").labels

\* C8: for two batches with disjoint id sets, folding B1 then B2 gives the
\* same mapping id -> label vector as folding B2 then B1, from any snapshot.
C8_DisjointCommute ==
  (fold.phase = 2 /\ Ids(fold.b1) \cap Ids(fold.b2) = {}) =>
     MapOf(fold.a2.recs) = MapOf(fold.r2.recs)

\* two non-empty disjoint batches folded into a non-empty snapshot, the two
\* orders leaving different record lists
C8_Witness ==
  /\ fold.phase = 2 /\ fold.s0.exists /\ fold.s0.recs # <<>>
  /\ fold.b1 # <<>> /\ fold.b2 # <<>>
  /\ Ids(fold.b1) \cap Ids(fold.b2) = {}
  /\ fold.a2.recs # fold.r2.recs

(***************************************************************************)
(* Properties of the master store.                                         *)
(***************************************************************************)
\* C2: after any sequence of fold-ins from an empty store, the current
\* snapshot (the latest master file) contains every id at most once.
C2_UniqueIds ==
  (pc = "idle" /\ DOMAIN master # {} /\ LatestReadable) => NoDupIds(LoadedMaster)

\* C4: once a first snapshot has been written, every reachable state has at
\* least one snapshot file in the master directory.
C4_NeverZeroSnapshots == everWritten => DOMAIN master # {}

\* C5: a fold-in whose snapshot write fails leaves every snapshot file that
\* existed before it in place, with the content it had.
C5_FailedWriteKeepsPrior ==
  [][(ops' = ops + 1 /\ op'.status = "writefail") =>
       \A n \in DOMAIN master : n \in DOMAIN master' /\ master'[n] = master[n]]_vars

\* C6: after every fold-in that completes successfully, exactly one snapshot
\* file exists and it holds the merged result.
C6_ExactlyOneAfterSuccess ==
  (pc = "idle" /\ op.status = "ok") =>
     /\ Cardinality(DOMAIN master) = 1
     /\ \A n \in DOMAIN master : master[n] = File(op.merged)

\* C7: whenever more than one snapshot file is in the master directory, the
\* lexicographically greatest file name is the file created most recently.
C7_LatestIsNewest ==
  Cardinality(DOMAIN master) > 1 => LatestOf(master) = order[Len(order)]

(***************************************************************************)
(* Properties of the spreadsheet round trip.                               *)
(***************************************************************************)
\* C9: detection on an export in which no cell was edited returns an empty
\* change list, for every export option.
C9_UneditedExportNoChanges ==
  (xl.phase = "detected" /\ xl.edits = 0) => xl.changes = <<>>

\* C10: detection returns exactly one change record for each original record
\* whose label vector in the sheet differs from the original and none for any
\* other record; each change record carries the original's text and the
\* label vector of the sheet.
C10_ExactlyTheChangedRecords ==
  xl.phase = "detected" =>
    /\ \A i \in Ids(xl.orig) :
         LET n == Cardinality({ k \in DOMAIN xl.changes : xl.changes[k].id = i })
             differs == \E k \in DOMAIN xl.sheet :
                           /\ xl.sheet[k].id = i
                           /\ RowVec(xl.sheet[k]) # Lookup(xl.orig, i).labels
         IN  n = IF differs THEN 1 ELSE 0
    /\ \A k \in DOMAIN xl.changes :
         /\ xl.changes[k].id \in Ids(xl.orig)
         /\ xl.changes[k].text = Lookup(xl.orig, xl.changes[k].id).text
         /\ \E j \in DOMAIN xl.sheet :
              /\ xl.sheet[j].id = xl.changes[k].id
              /\ RowVec(xl.sheet[j]) = xl.changes[k].labels

\* C11: every id in the output of detect_changes_from_excel is an id of the
\* original record set: a row of an id the original does not have yields no
\* change record.
C11_NoFabricatedRecord ==
  xl.phase = "detected" =>
    \A k \in DOMAIN xl.changes : xl.changes[k].id \in Ids(xl.orig)

\* detection has returned changes for a sheet that holds a row of an id the
\* JSON file does not have
C11_Witness ==
  /\ xl.phase = "detected" /\ xl.changes # <<>>
  /\ \E k \in DOMAIN xl.sheet : xl.sheet[k].id \notin Ids(xl.orig)

\* the sheet with every text cell of a label column read as the number 0
ZeroedText(sheet) ==
  [k \in DOMAIN sheet |->
     [sheet[k] EXCEPT
        !.cells = [l \in DOMAIN sheet[k].cells |->
                     IF sheet[k].cells[l] = TextCell THEN Cell(0) ELSE sheet[k].cells[l]]]]

\* C12: a missing label column, a blank label cell and a non-numeric label
\* cell are each read as 0, and the import completes without error and
\* returns the changes of all rows.
C12_TolerantImport ==
  xl.phase \in {"detected", "error"} =>
    /\ xl.phase = "detected"
    /\ xl.changes = DetectChanges(xl.orig, ZeroedText(xl.sheet))

\* the set of change records of a list
ChangeSet(changes) == { changes[k] : k \in DOMAIN changes }

\* C13: for an original set with unique ids, permuting the rows of the edited
\* export does not change the set of change records detection returns.
C13_RowOrderIrrelevant ==
  (xl.phase = "detected" /\ NoDupIds(xl.orig)) =>
    \A p \in Permutations(DOMAIN xl.sheet) :
      LET permuted == [k \in DOMAIN xl.sheet |-> xl.sheet[p[k]]]
      IN  /\ ~DetectRaises(xl.orig, permuted)
          /\ ChangeSet(DetectChanges(xl.orig, permuted)) = ChangeSet(xl.changes)

\* detection has returned changes for an export sorted by text length whose
\* rows are not in the order of the JSON file
C13_Witness ==
  /\ xl.phase = "detected" /\ xl.changes # <<>>
  /\ xl.opts.sorted /\ ~xl.opts.manual
  /\ Len(xl.sheet) = 2 /\ Len(xl.orig) = 2
  /\ xl.sheet[1].id = xl.orig[2].id

(***************************************************************************)
(* Properties of the batch selection.                                      *)
(***************************************************************************)
\* the rows of the selected batch
BatchRows == { sel.batch[i] : i \in DOMAIN sel.batch }

\* the rows of the data frame whose id is not labeled
FreeRows == { r \in DOMAIN sel.lens : r \notin sel.labeled }

\* min(size, number of unlabeled rows)
Quota == IF sel.size < Cardinality(FreeRows) THEN sel.size ELSE Cardinality(FreeRows)

\* C14: select_batch_by_length returns exactly the min(k, u) unlabeled records
\* of greatest text length, a tie at the cut-off going to the record that is
\* earlier in the original order; asking for more than u returns all u.
C14_LongestFirst ==
  (sel.phase = "selected" /\ sel.method = "longest") =>
    /\ Len(sel.batch) = Quota
    /\ Cardinality(BatchRows) = Quota
    /\ BatchRows \subseteq FreeRows
    /\ \A b \in BatchRows, c \in FreeRows \ BatchRows :
         \/ sel.lens[b] > sel.lens[c]
         \/ sel.lens[b] = sel.lens[c] /\ b < c

\* the longest-first selection has cut between two unlabeled rows of equal
\* length, with a labeled row in the data frame
C14_Witness ==
  /\ sel.phase = "selected" /\ sel.method = "longest"
  /\ FreeRows # DOMAIN sel.lens
  /\ \E b \in BatchRows, c \in FreeRows \ BatchRows : sel.lens[b] = sel.lens[c]

\* C15: for each of the four strategies the batch holds no labeled record,
\* holds no record twice and has exactly min(size, unlabeled) records; with
\* no unlabeled record left the result is empty and no error is raised.
C15_SelectionSafe ==
  sel.phase = "selected" =>
    /\ \A r \in BatchRows : r \in DOMAIN sel.lens /\ r \notin sel.labeled
    /\ \A i, j \in DOMAIN sel.batch : sel.batch[i] = sel.batch[j] => i = j
    /\ Len(sel.batch) = Quota
    /\ FreeRows = {} => sel.batch = <<>> /\ sel.result = "none"

\* a strategy other than longest has selected some but not all unlabeled
\* rows of a data frame that holds a labeled row
C15_Witness ==
  /\ sel.phase = "selected" /\ sel.method \in {"medium", "random", "shortest"}
  /\ \E r \in DOMAIN sel.lens : r \in sel.labeled
  /\ BatchRows # {} /\ BatchRows # FreeRows

(***************************************************************************)
(* Properties of the batch directory.                                      *)
(***************************************************************************)
\* C16: any two batch files recorded by process_batch_for_labeling or
\* save_manual_changes get distinct names, so recording a batch never
\* overwrites a batch recorded before.
C16_DistinctBatchNames ==
  \A i, j \in DOMAIN batchLog.names :
    batchLog.names[i] = batchLog.names[j] => i = j

\* C17: every batch file a listing of the batch directory shows is a
\* completely written batch, also after a write that failed part-way.
C17_ListedBatchesComplete ==
  \A n \in Listing(batches) : batches[n].valid

\* C18: cleanup_old_files(keep_latest = k) on a directory of n batch files
\* leaves exactly min(n, k) of them, and no file it deletes carries a later
\* timestamp than a file it keeps.
C18_CleanupKeepsLatest ==
  [][batchLog'.cleanups = batchLog.cleanups + 1 =>
       LET n == Cardinality(DOMAIN batches)
           k == batchLog'.keep
       IN  /\ DOMAIN batches' \subseteq DOMAIN batches
           /\ Cardinality(DOMAIN batches') = IF n < k THEN n ELSE k
           /\ \A f \in DOMAIN batches', g \in DOMAIN batches \ DOMAIN batches' :
                f.sec >= g.sec]_vars

\* C19: when a fold-in (update_master_labels or
\* integrate_changes_with_master) has replaced the snapshot and returned or
\* raised, the export holds one line per record of the snapshot it wrote,
\* in snapshot order; no state at rest pairs the new snapshot with a stale
\* or partly written export, also when the export generation raised.
C19_ExportMatchesSnapshot ==
  (pc = "idle" /\ op.status \in {"ok", "jsonlfail"}) => ftData = op.merged

\* C20: every record of every readable snapshot a fold-in wrote has every
\* label key of ALL_LABELS with a value 0 or 1, whatever the folded batch
\* file held; a batch record lacking a key or carrying another value is
\* not stored.
C20_CompleteLabelVectors ==
  \A n \in DOMAIN master :
    master[n].valid =>
      \A k \in DOMAIN master[n].recs :
        /\ DOMAIN master[n].recs[k].labels = ALL_LABELS
        /\ \A l \in ALL_LABELS : master[n].recs[k].labels[l] \in {0, 1}

\* C26: a spreadsheet written by convert_json_to_excel_rtl from a JSON file
\* with one record per id has one row per record: no id is in two rows,
\* for every combination of include_manual, sort_by_length and
\* include_length_column.
C26_OneRowPerRecord ==
  (xl.phase = "sheet" /\ xl.edits = 0 /\ NoDupIds(xl.orig)) => NoDupIds(xl.sheet)

\* C28: for every snapshot state S and record list C,
\* integrate_changes_with_master(C) and update_master_labels on a batch
\* file holding C leave snapshots with the same records in the same order.
C28_FoldInsAgree ==
  fold.phase >= 1 => fold.i1 = fold.a1

\* C29: for a snapshot S with unique ids and an edited export E of S, once
\* process_excel_changes has folded the changes into S, detecting again
\* with the new snapshot as original and the same E returns no change, and
\* every row of E whose id is in S carries the snapshot's label vector.
C29_ReconciliationConverges ==
  (/\ xl.phase = "redetected"
   /\ NoDupIds(xl.orig)
   /\ xl.before = Snapshot(xl.orig)
   /\ xl.manual \in {NoSnapshot, Snapshot(xl.orig)})
    => /\ xl.again = <<>>
       /\ \A k \in DOMAIN xl.sheet :
            xl.sheet[k].id \in Ids(xl.orig) =>
              RowVec(xl.sheet[k]) = Lookup(xl.snap.recs, xl.sheet[k].id).labels

\* C21: load_labeled_ids returns the empty id set without an error only
\* when no snapshot file is named and the master directory holds none (or
\* the file it read holds no record); when a snapshot file is named and
\* that file is missing, the call ends in an error.
C21_MissingNamedFileIsError ==
  /\ (cl.loaded # "none" /\ cl.named # NoName /\ cl.named \notin DOMAIN master)
       => cl.loaded = "error"
  /\ (cl.loaded = "ok" /\ cl.labeled = {})
       => \/ cl.named = NoName /\ DOMAIN master = {}
          \/ /\ cl.named \in DOMAIN master \cup {NoName}
             /\ DOMAIN master # {}
             /\ LET file == IF cl.named = NoName THEN LatestOf(master) ELSE cl.named
                IN  master[file].valid /\ master[file].recs = <<>>

\* C23: the id of a record is a function of its text alone: whatever the
\* row, the run (prepare_for_labeling, bulk classification on a frame read
\* again) and the master directory, a text is given the id it was given
\* before, and two rows with equal text get the same id.
C23_IdIsFunctionOfText ==
  \A a, b \in cl.seen : a.text = b.text => a.id = b.id

\* a text was given an id twice, in different rows of two frames
C23_Witness ==
  /\ cl.runs = 2
  /\ \E a, b \in cl.seen : a.text = b.text /\ a.row # b.row
  /\ \E a, b \in cl.seen : a.text # b.text

\* C24: a failing classifier call (transport error, malformed answer) is a
\* failure of that record only: when classify_batch_with_api or the bulk
\* classifier has ended, the prediction of every record whose call
\* succeeded has been returned and written to a prediction file.
C24_FailureIsPerRecord ==
  cl.phase \in {"aborted", "returned"} =>
    \A n \in DOMAIN cl.calls :
      cl.calls[n] = "ok" =>
        /\ \E k \in DOMAIN cl.returned : cl.returned[k] = cl.ids[cl.batch[n]]
        /\ \E f \in DOMAIN cl.files :
             \E k \in DOMAIN cl.files[f] : cl.files[f][k] = cl.ids[cl.batch[n]]

\* C22: when the batch file given to update_master_labels is missing or
\* does not parse, the call ends with an error that leaves the function,
\* and the snapshot files, their contents and the training-example export
\* are those of before the call.
C22_BadBatchFileLeavesStore ==
  [][(ops' = ops + 1 /\ op'.kind = "uml" /\ op'.input \in {"missing", "corrupt"})
       => /\ op'.status = "batcherror"
          /\ pc' = "idle"
          /\ master' = master
          /\ order' = order
          /\ ftData' = ftData]_vars

\* a call on an unparsable batch file has ended while a snapshot and an
\* export were on disk
C22_Witness ==
  /\ op.status = "batcherror"
  /\ op.input = "corrupt"
  /\ DOMAIN master # {}
  /\ ftData # <<>>

\* C27: the labeled-id set only grows: once a fold-in has returned
\* successfully, load_labeled_ids returns every id of the snapshot it
\* wrote, which holds the ids of the snapshot before and of the batch, so
\* that no later selection takes a record that was folded in.
C27_LabeledIdsOnlyGrow ==
  (pc = "idle" /\ op.status = "ok") =>
    LET l == LoadLabeledIds(master, NoName)
    IN  l.ok /\ Ids(op.merged) \subseteq l.ids

\* C25: update_master_labels treats batches as read-only: no step of it
\* modifies, renames or deletes the batch file it folds in or any other
\* file of the batch directory.
C25_BatchesReadOnly ==
  [][batches' = batches]_vars

\* two batch files have been folded in, and the second call removed the
\* snapshot the first one wrote
C25_Witness ==
  /\ pc = "idle"
  /\ pa.done = <<"ok", "ok">>
  /\ Cardinality(DOMAIN batches) = 2
  /\ Cardinality(DOMAIN master) = 1

\* the places of the files that hold id i and whose call wrote its snapshot
\* (it returned, or raised only while the export was generated)
OkHolders(i) ==
  { k \in DOMAIN pa.done :
      /\ pa.done[k] \in {"ok", "jsonlfail"}
      /\ i \in Ids(ReadPath(batches, pa.files[k]).recs) }

====
